---- MODULE Spec2Model ----
(***************************************************************************)
(* Model of check_signed.py: the extract -> normalize -> dedupe -> sort -> *)
(* diff -> render pipeline and the run of main over the file system.       *)
(*                                                                         *)
(* Text is a sequence of code points (Python str), so that normalisation,  *)
(* case folding, the keyword search, markdown escaping and the JSON        *)
(* encoding are computed character by character as the code computes them. *)
(* The character domain of the model is ASCII plus U+00A0; the inputs are  *)
(* drawn from named pools over that domain.                                *)
(***************************************************************************)
EXTENDS Integers, Sequences, FiniteSets, TLC

(* ------------------------------ bounds -------------------------------- *)

\* Longest candidate sequence handed to the Normalizer/Filter.
MaxCands == 2
\* Longest title list handed to diff_titles / the renderers.
MaxTitles == 2
\* Longest stream of start tags handed to extract_titles on its own.
MaxTags == 2
\* Longest text handed to escape_markdown on its own.
MaxEscLen == 3

(* ------------------------------ characters ---------------------------- *)

Min(a, b) == IF a < b THEN a ELSE b

\* str.isspace / the \s class of a str pattern.
IsSpace(c) ==
    \/ c \in 9..13
    \/ c \in 28..32
    \/ c \in {133, 160, 5760, 8232, 8233, 8239, 8287, 12288}
    \/ c \in 8192..8202

\* The \w class on the model's character domain.
IsWordChar(c) ==
    \/ c \in 48..57
    \/ c \in 65..90
    \/ c \in 97..122
    \/ c = 95

\* Case folding of one character (ASCII letters).
FoldChar(c) == IF c \in 65..90 THEN c + 32 ELSE c

\* str.casefold
casefold(s) == [i \in 1..Len(s) |-> FoldChar(s[i])]

\* Python's ordering of two strings: a < b.
StrLess(a, b) ==
    \E k \in 1..(Min(Len(a), Len(b)) + 1) :
        /\ \A j \in 1..(k - 1) : a[j] = b[j]
        /\ \/ k > Len(a) /\ k <= Len(b)
           \/ k <= Len(a) /\ k <= Len(b) /\ a[k] < b[k]

RECURSIVE JoinLines(_)
\* "\n".join(lines)
JoinLines(lines) ==
    IF lines = <<>> THEN <<>>
    ELSE IF Len(lines) = 1 THEN lines[1]
    ELSE lines[1] \o <<10>> \o JoinLines(Tail(lines))

(* ------------------------------ html.unescape -------------------------- *)

\* The entries of html.entities.html5 that the model's inputs can name.
Html5 ==
    { << <<97, 109, 112>>, <<38>> >>,               \* amp   -> &
      << <<97, 109, 112, 59>>, <<38>> >>,           \* amp;  -> &
      << <<108, 116>>, <<60>> >>,                   \* lt    -> <
      << <<108, 116, 59>>, <<60>> >>,               \* lt;   -> <
      << <<103, 116>>, <<62>> >>,                   \* gt    -> >
      << <<103, 116, 59>>, <<62>> >>,               \* gt;   -> >
      << <<110, 98, 115, 112>>, <<160>> >>,         \* nbsp  -> U+00A0
      << <<110, 98, 115, 112, 59>>, <<160>> >> }    \* nbsp; -> U+00A0

InHtml5(name) == \E e \in Html5 : e[1] = name

Html5Value(name) == (CHOOSE e \in Html5 : e[1] = name)[2]

\* A character the name part of a character reference may hold:
\* [^\t\n\f <&#;]
IsRefChar(c) == c \notin {9, 10, 12, 32, 60, 38, 35, 59}

RECURSIVE RefRun(_, _, _)
\* Length of the greedy match of [^\t\n\f <&#;]{1,32} at position i.
RefRun(s, i, n) ==
    IF i > Len(s) \/ n = 32 \/ ~IsRefChar(s[i]) THEN n
    ELSE RefRun(s, i + 1, n + 1)

\* html._replace_charref for a named reference.
ReplaceCharref(ref) ==
    IF InHtml5(ref) THEN Html5Value(ref)
    ELSE LET fits == {x \in 2..(Len(ref) - 1) : InHtml5(SubSeq(ref, 1, x))}
         IN  IF fits = {} THEN <<38>> \o ref
             ELSE LET x == CHOOSE y \in fits : \A z \in fits : z <= y
                  IN  Html5Value(SubSeq(ref, 1, x)) \o SubSeq(ref, x + 1, Len(ref))

RECURSIVE UnescapeFrom(_, _)
UnescapeFrom(s, i) ==
    IF i > Len(s) THEN <<>>
    ELSE IF s[i] # 38 THEN <<s[i]>> \o UnescapeFrom(s, i + 1)
    ELSE LET run == RefRun(s, i + 1, 0)
             semi == IF i + run + 1 <= Len(s) /\ s[i + run + 1] = 59 THEN 1 ELSE 0
         IN  IF run = 0 THEN <<38>> \o UnescapeFrom(s, i + 1)
             ELSE ReplaceCharref(SubSeq(s, i + 1, i + run + semi))
                      \o UnescapeFrom(s, i + 1 + run + semi)

\* html.unescape: one left-to-right pass over the character references.
unescape(s) == UnescapeFrom(s, 1)

(* ------------------------------ normalize_title ------------------------ *)

RECURSIVE WHITESPACE_RE_sub(_)
\* WHITESPACE_RE.sub(" ", text): every run of whitespace becomes one space.
WHITESPACE_RE_sub(s) ==
    IF s = <<>> THEN <<>>
    ELSE IF IsSpace(Head(s))
         THEN IF Len(s) > 1 /\ IsSpace(s[2])
              THEN WHITESPACE_RE_sub(Tail(s))
              ELSE <<32>> \o WHITESPACE_RE_sub(Tail(s))
    ELSE <<Head(s)>> \o WHITESPACE_RE_sub(Tail(s))

RECURSIVE LStrip(_)
LStrip(s) == IF s # <<>> /\ IsSpace(Head(s)) THEN LStrip(Tail(s)) ELSE s

RECURSIVE RStrip(_)
\* str.rstrip
RStrip(s) ==
    IF s # <<>> /\ IsSpace(s[Len(s)]) THEN RStrip(SubSeq(s, 1, Len(s) - 1)) ELSE s

\* str.strip
Strip(s) == RStrip(LStrip(s))

normalize_title(title) == Strip(WHITESPACE_RE_sub(unescape(title)))

(* ------------------------------ SIGNED_RE ------------------------------ *)

\* The keyword of SIGNED_RE: "Elantris".
Keyword == <<69, 108, 97, 110, 116, 114, 105, 115>>

\* SIGNED_RE.search(text): \bElantris\b, re.IGNORECASE.
SIGNED_RE_search(text) ==
    \E i \in 1..(Len(text) - Len(Keyword) + 1) :
        /\ \A j \in 1..Len(Keyword) : FoldChar(text[i + j - 1]) = FoldChar(Keyword[j])
        /\ i = 1 \/ ~IsWordChar(text[i - 1])
        /\ i + Len(Keyword) > Len(text) \/ ~IsWordChar(text[i + Len(Keyword)])

(* ------------------------------ sorting -------------------------------- *)

RECURSIVE InsertByKey(_, _)
\* Insert x behind every element whose key is not greater (a stable sort).
InsertByKey(sorted, x) ==
    IF sorted = <<>> THEN <<x>>
    ELSE IF StrLess(casefold(x), casefold(Head(sorted)))
         THEN <<x>> \o sorted
         ELSE <<Head(sorted)>> \o InsertByKey(Tail(sorted), x)

RECURSIVE SortLoop(_, _)
SortLoop(done, rest) ==
    IF rest = <<>> THEN done
    ELSE SortLoop(InsertByKey(done, Head(rest)), Tail(rest))

\* Variant: the list left in the order it was built.
SortUnsorted(titles) == titles

\* list.sort(key=str.casefold)
SortByCasefold(titles) == SortLoop(<<>>, titles)

(* ------------------------------ extract_titles ------------------------- *)

Get(attrs, key, default) == IF key \in DOMAIN attrs THEN attrs[key] ELSE default

\* "/products/"
ProductsPrefix == <<47, 112, 114, 111, 100, 117, 99, 116, 115, 47>>

StartsWith(s, prefix) ==
    Len(s) >= Len(prefix) /\ SubSeq(s, 1, Len(prefix)) = prefix

\* ProductTitleParser.handle_starttag: the titles it appends for one tag.
handle_starttag(tag, attrs) ==
    LET href == Get(attrs, "href", <<>>)
        title == Get(attrs, "title", <<>>)
    IN  IF tag # "a" THEN <<>>
        ELSE IF title = <<>> \/ href = <<>> THEN <<>>
        ELSE IF StartsWith(href, ProductsPrefix) THEN <<title>>
        ELSE <<>>

RECURSIVE ParserFeed(_)
\* parser.feed(html_text): html_text is the stream of start tags of the page.
ParserFeed(tags) ==
    IF tags = <<>> THEN <<>>
    ELSE handle_starttag(Head(tags).tag, Head(tags).attrs) \o ParserFeed(Tail(tags))

RECURSIVE FilterLoop(_, _, _)
\* The loop of extract_titles over parser.titles.
FilterLoop(raw, seen, titles) ==
    IF raw = <<>> THEN titles
    ELSE LET title == normalize_title(Head(raw))
             key == casefold(title)
         IN  IF title = <<>> THEN FilterLoop(Tail(raw), seen, titles)
             ELSE IF ~SIGNED_RE_search(title) THEN FilterLoop(Tail(raw), seen, titles)
             ELSE IF key \in seen THEN FilterLoop(Tail(raw), seen, titles)
             ELSE FilterLoop(Tail(raw), seen \cup {key}, Append(titles, title))

\* extract_titles from the parser's titles on: filter, dedupe, sort.
NormalizeFilter(raw) == SortByCasefold(FilterLoop(raw, {}, <<>>))

extract_titles(html_text) == NormalizeFilter(ParserFeed(html_text))

(* ------------------------------ diff_titles ---------------------------- *)

Keys(titles) == {casefold(titles[i]) : i \in 1..Len(titles)}

RECURSIVE Select(_, _)
\* [title for title in titles if title.casefold() not in keys]
Select(titles, keys) ==
    IF titles = <<>> THEN <<>>
    ELSE IF casefold(Head(titles)) \notin keys
         THEN <<Head(titles)>> \o Select(Tail(titles), keys)
         ELSE Select(Tail(titles), keys)

\* Variant: the two lists compared the wrong way round.
diff_titles_swapped(previous, current) ==
    [added |-> SortByCasefold(Select(previous, Keys(current))),
     removed |-> SortByCasefold(Select(current, Keys(previous)))]

\* diff_titles: the pair (added, removed).
diff_titles(previous, current) ==
    [added |-> SortByCasefold(Select(current, Keys(previous))),
     removed |-> SortByCasefold(Select(previous, Keys(current)))]

(* ------------------------------ escape_markdown ------------------------ *)

\* Variant: the backslash replaced last instead of first.
replacements_backslash_last == <<42, 95, 96, 91, 93, 92>>

\* The replacements of escape_markdown, in its order: \ * _ ` [ ]
replacements == <<92, 42, 95, 96, 91, 93>>

RECURSIVE Replace(_, _)
\* text.replace(c, "\\" + c) for a one-character c.
Replace(text, c) ==
    IF text = <<>> THEN <<>>
    ELSE IF Head(text) = c THEN <<92, c>> \o Replace(Tail(text), c)
    ELSE <<Head(text)>> \o Replace(Tail(text), c)

RECURSIVE ReplaceAll(_, _)
ReplaceAll(text, reps) ==
    IF reps = <<>> THEN text
    ELSE ReplaceAll(Replace(text, Head(reps)), Tail(reps))

escape_markdown(text) == ReplaceAll(text, replacements)

(* ------------------------------ format_issue_body ---------------------- *)

\* "**"
Bold == <<42, 42>>
\* "- "
Bullet == <<45, 32>>
\* "Added:"
AddedHeader == <<65, 100, 100, 101, 100, 58>>
\* "Removed:"
RemovedHeader == <<82, 101, 109, 111, 118, 101, 100, 58>>
\* "Current signed titles:"
CurrentHeader ==
    <<67, 117, 114, 114, 101, 110, 116, 32, 115, 105, 103, 110, 101, 100,
      32, 116, 105, 116, 108, 101, 115, 58>>

AddedLines(added) ==
    IF added = <<>> THEN <<>>
    ELSE <<AddedHeader>>
         \o [i \in 1..Len(added) |-> Bullet \o Bold \o escape_markdown(added[i]) \o Bold]
         \o << <<>> >>

RemovedLines(removed) ==
    IF removed = <<>> THEN <<>>
    ELSE <<RemovedHeader>>
         \o [i \in 1..Len(removed) |-> Bullet \o escape_markdown(removed[i])]
         \o << <<>> >>

\* Variant: no current title rendered bold.
CurrentLinesAllPlain(current, added) ==
    <<CurrentHeader>>
    \o [i \in 1..Len(current) |-> Bullet \o escape_markdown(current[i])]

CurrentLines(current, added) ==
    <<CurrentHeader>>
    \o [i \in 1..Len(current) |->
          IF casefold(current[i]) \in Keys(added)
          THEN Bullet \o Bold \o escape_markdown(current[i]) \o Bold
          ELSE Bullet \o escape_markdown(current[i])]

format_issue_body(current, added, removed) ==
    RStrip(JoinLines(AddedLines(added) \o RemovedLines(removed)
                     \o CurrentLines(current, added)))
    \o <<10>>

(* ------------------------------ format_issue_title --------------------- *)

\* "New signed book - multiple"
MultipleLabel ==
    <<78, 101, 119, 32, 115, 105, 103, 110, 101, 100, 32, 98, 111, 111, 107,
      32, 45, 32, 109, 117, 108, 116, 105, 112, 108, 101>>
\* "New signed book - "
NewPrefix ==
    <<78, 101, 119, 32, 115, 105, 103, 110, 101, 100, 32, 98, 111, 111, 107,
      32, 45, 32>>
\* "Removed signed book - "
RemovedPrefix ==
    <<82, 101, 109, 111, 118, 101, 100, 32, 115, 105, 103, 110, 101, 100, 32,
      98, 111, 111, 107, 32, 45, 32>>

\* Variant: without the test for more than one change.
format_issue_title_first_wins(added, removed) ==
    IF Len(added) + Len(removed) = 0 THEN <<>>
    ELSE IF added # <<>> THEN NewPrefix \o added[1]
    ELSE RemovedPrefix \o removed[1]

format_issue_title(added, removed) ==
    LET total_changes == Len(added) + Len(removed)
    IN  IF total_changes = 0 THEN <<>>
        ELSE IF total_changes > 1 THEN MultipleLabel
        ELSE IF added # <<>> THEN NewPrefix \o added[1]
        ELSE RemovedPrefix \o removed[1]

(* ------------------------------ JSON files ----------------------------- *)

(* A file is absent, holds text that is no JSON document, or holds a JSON  *)
(* document.  A document is kept as the tree of its text, every string in  *)
(* it as the characters written between its quotes; the layout (indent,    *)
(* key order, trailing newline) is not kept.                               *)
AbsentFile == [kind |-> "absent"]
TextFile(text) == [kind |-> "text", text |-> text]
JsonFile(doc) == [kind |-> "json", doc |-> doc]

HexDigit(d) == IF d < 10 THEN 48 + d ELSE 87 + d

HexValue(c) == IF c \in 48..57 THEN c - 48 ELSE IF c \in 97..102 THEN c - 87 ELSE c - 55

\* json.encoder.py_encode_basestring_ascii, one character.
EncodeChar(c) ==
    CASE c = 34 -> <<92, 34>>
      [] c = 92 -> <<92, 92>>
      [] c = 10 -> <<92, 110>>
      [] c = 13 -> <<92, 114>>
      [] c = 9 -> <<92, 116>>
      [] c = 12 -> <<92, 102>>
      [] c = 8 -> <<92, 98>>
      [] c \in 32..126 /\ c \notin {34, 92} -> <<c>>
      [] OTHER -> <<92, 117, HexDigit(c \div 4096), HexDigit((c \div 256) % 16),
                    HexDigit((c \div 16) % 16), HexDigit(c % 16)>>

RECURSIVE EncodeString(_)
\* The characters json.dump(..., ensure_ascii=True) writes for a str.
EncodeString(s) ==
    IF s = <<>> THEN <<>> ELSE EncodeChar(Head(s)) \o EncodeString(Tail(s))

\* json.decoder.BACKSLASH: the character an escape letter stands for.
Backslash(c) ==
    CASE c = 98 -> 8
      [] c = 102 -> 12
      [] c = 110 -> 10
      [] c = 114 -> 13
      [] c = 116 -> 9
      [] OTHER -> c

RECURSIVE DecodeString(_)
\* json.decoder.py_scanstring on the characters between the quotes.
DecodeString(s) ==
    IF s = <<>> THEN <<>>
    ELSE IF Head(s) # 92 THEN <<Head(s)>> \o DecodeString(Tail(s))
    ELSE IF s[2] = 117
         THEN <<4096 * HexValue(s[3]) + 256 * HexValue(s[4])
                + 16 * HexValue(s[5]) + HexValue(s[6])>>
              \o DecodeString(SubSeq(s, 7, Len(s)))
         ELSE <<Backslash(s[2])>> \o DecodeString(SubSeq(s, 3, Len(s)))

JString(s) == [t |-> "string", s |-> EncodeString(s)]
JArray(strs) == [t |-> "array", items |-> [i \in 1..Len(strs) |-> JString(strs[i])]]
JObject(fields) == [t |-> "object", fields |-> fields]

RECURSIVE Digits(_)
\* str(n) for an int n >= 0.
Digits(n) == IF n < 10 THEN <<48 + n>> ELSE Digits(n \div 10) \o <<48 + (n % 10)>>

\* str(title) for one element of a parsed "titles" list.
Str(item) ==
    CASE item.t = "string" -> DecodeString(item.s)
      [] item.t = "number" -> Digits(item.n)
      [] OTHER -> <<78, 111, 110, 101>>      \* str(None)

\* write_json: the file at path holds the document of payload afterwards.
write_json(files, path, payload) == [files EXCEPT ![path] = JsonFile(payload)]

\* Path.write_text
write_text(files, path, text) == [files EXCEPT ![path] = TextFile(text)]

\* load_titles: the list it returns, or the exception it raises.
load_titles(files, path) ==
    LET file == files[path]
    IN  IF file.kind = "absent" THEN [ok |-> TRUE, titles |-> <<>>, error |-> ""]
        ELSE IF file.kind = "text"
        THEN [ok |-> FALSE, titles |-> <<>>, error |-> "JSONDecodeError"]
        ELSE IF file.doc.t # "object"
        THEN [ok |-> FALSE, titles |-> <<>>, error |-> "AttributeError"]
        ELSE IF "titles" \notin DOMAIN file.doc.fields
        THEN [ok |-> TRUE, titles |-> <<>>, error |-> ""]
        ELSE IF file.doc.fields.titles.t # "array"
        THEN [ok |-> TRUE, titles |-> <<>>, error |-> ""]
        ELSE [ok |-> TRUE, error |-> "",
              titles |-> [i \in 1..Len(file.doc.fields.titles.items) |->
                             Str(file.doc.fields.titles.items[i])]]

(* ------------------------------ payloads ------------------------------- *)

\* SOURCE_URL: "https://www.dragonsteelbooks.com/search?q=signed"
SOURCE_URL ==
    <<104, 116, 116, 112, 115, 58, 47, 47, 119, 119, 119, 46, 100, 114, 97,
      103, 111, 110, 115, 116, 101, 101, 108, 98, 111, 111, 107, 115, 46, 99,
      111, 109, 47, 115, 101, 97, 114, 99, 104, 63, 113, 61, 115, 105, 103,
      110, 101, 100>>

TwoDigits(n) == <<48 + (n \div 10), 48 + (n % 10)>>

\* now.strftime("%Y-%m-%dT%H<sep>%M<sep>%SZ"); the clock reading is the
\* second of the day 2024-01-01.
strftime(clock, sep) ==
    <<50, 48, 50, 52, 45, 48, 49, 45, 48, 49, 84>>
    \o TwoDigits(clock \div 3600) \o <<sep>>
    \o TwoDigits((clock \div 60) % 60) \o <<sep>>
    \o TwoDigits(clock % 60) \o <<90>>

\* timestamp (":" between the fields) and file_timestamp ("-").
Timestamp(clock) == strftime(clock, 58)
FileTimestamp(clock) == strftime(clock, 45)

\* Path(args.output_dir) / f"{file_timestamp}.json"
OutputDirPath(dir, clock) ==
    dir \o <<47>> \o FileTimestamp(clock) \o <<46, 106, 115, 111, 110>>

\* The payload of main, as the document write_json writes.
SnapshotPayload(timestamp, current) ==
    JObject([timestamp |-> JString(timestamp),
             source_url |-> JString(SOURCE_URL),
             titles |-> JArray(current)])

\* The diff_payload of main.
DiffPayload(timestamp, added, removed, current, previous) ==
    JObject([timestamp |-> JString(timestamp),
             added |-> JArray(added),
             removed |-> JArray(removed),
             current |-> JArray(current),
             previous |-> JArray(previous)])

(* ------------------------------ input pools ---------------------------- *)

\* Titles, named by their text.
tElantris == <<69, 108, 97, 110, 116, 114, 105, 115>>                  \* Elantris
tELANTRIS == <<69, 76, 65, 78, 84, 82, 73, 83>>                        \* ELANTRIS
tAnElantris == <<97, 110, 32, 69, 108, 97, 110, 116, 114, 105, 115>>   \* an Elantris
tElantrisB == <<69, 108, 97, 110, 116, 114, 105, 115, 32, 66>>         \* Elantris B
tOldElantris == <<79, 108, 100, 32, 69, 108, 97, 110, 116, 114, 105, 115>>  \* Old Elantris
tElantrisMd == <<69, 108, 97, 110, 116, 114, 105, 115, 32, 42, 95>>    \* Elantris *_
tElantrisQ == <<69, 108, 97, 110, 116, 114, 105, 115, 32, 34, 81, 34, 92>>  \* Elantris "Q"\
tMultiple == <<109, 117, 108, 116, 105, 112, 108, 101>>                \* multiple

\* Raw title attributes, as the parser hands them over.
rSpaced == <<32, 69, 108, 97, 110, 116, 114, 105, 115, 32, 9, 65>>     \* " Elantris \tA"
rLower == <<32, 32, 101, 108, 97, 110, 116, 114, 105, 115, 32>>        \* "  elantris "
rZelantris == <<90, 101, 108, 97, 110, 116, 114, 105, 115>>            \* Zelantris
rEntity ==                                                             \* Elantris &amp;lt;
    <<69, 108, 97, 110, 116, 114, 105, 115, 32, 38, 97, 109, 112, 59, 108, 116, 59>>
rNbsp == <<38, 110, 98, 115, 112, 59, 32>>                             \* "&nbsp; "
rCart == <<69, 108, 97, 110, 116, 114, 105, 115, 32, 67, 97, 114, 116>>  \* Elantris Cart

CandPool ==
    {tElantris, tELANTRIS, tAnElantris, rSpaced, rLower, rZelantris, rEntity, rNbsp}

TitlePool == {tElantris, tELANTRIS, tAnElantris, tElantrisB, tMultiple}

BodyPool == {tElantris, tELANTRIS, tElantrisMd}

\* Titles of the removed list handed to format_issue_body.
RemovedPool == {tOldElantris, tElantrisMd}

\* The characters of the texts handed to escape_markdown: \ * _ ` [ ] a
EscAlphabet == {92, 42, 95, 96, 91, 93, 97}

SeqsUpTo(S, n) == UNION {[1..k -> S] : k \in 0..n}

\* Start tags of a page.
hrefProduct == <<47, 112, 114, 111, 100, 117, 99, 116, 115, 47, 120>>   \* /products/x
hrefCart == <<47, 99, 97, 114, 116>>                                    \* /cart

Anchor(href, title) == [tag |-> "a", attrs |-> [href |-> href, title |-> title]]

TagPool ==
    {Anchor(hrefProduct, tElantris),
     Anchor(hrefProduct, rSpaced),
     Anchor(hrefCart, rCart),
     Anchor(hrefProduct, <<>>),
     [tag |-> "div", attrs |-> [href |-> hrefProduct, title |-> tElantrisB]],
     [tag |-> "a", attrs |-> [href |-> hrefProduct]],
     [tag |-> "a", attrs |-> [title |-> tAnElantris]]}

\* The pages the fetch of a run of main can return.
Pages ==
    {<<>>,
     <<Anchor(hrefCart, rCart), Anchor(hrefProduct, rZelantris)>>,
     <<Anchor(hrefProduct, tElantris)>>,
     <<Anchor(hrefProduct, tElantrisQ), Anchor(hrefProduct, tAnElantris),
       Anchor(hrefProduct, tELANTRIS), Anchor(hrefProduct, rLower)>>}

\* Paths on the command line.
pathP == <<112>>                          \* p
pathQ == <<113>>                          \* q
pathDir == <<100>>                        \* d
pathDiff == <<100, 105, 102, 102>>        \* diff
pathBody == <<98, 111, 100, 121>>         \* body
pathTitle == <<116, 105, 116, 108, 101>>  \* title

\* Clock readings at which a run starts.
Clock == {1, 3661}

Paths ==
    {pathP, pathQ, pathDiff, pathBody, pathTitle}
    \cup {OutputDirPath(pathDir, c) : c \in Clock}

\* What a file can hold before the run.
OldFiles ==
    {AbsentFile,
     TextFile(<<123>>),
     JsonFile([t |-> "array", items |-> <<>>]),
     JsonFile(JObject([timestamp |-> JString(Timestamp(0))])),
     JsonFile(JObject([titles |-> JString(tElantris)])),
     JsonFile(SnapshotPayload(Timestamp(0), <<tElantris>>)),
     JsonFile(SnapshotPayload(Timestamp(0), <<tELANTRIS, tOldElantris>>))}

\* What load_titles is tried on.
LoadFiles ==
    OldFiles
    \cup {JsonFile([t |-> "null"]),
          JsonFile([t |-> "number", n |-> 7]),
          JsonFile(JString(tElantris)),
          JsonFile(JObject([titles |-> [t |-> "null"]])),
          JsonFile(JObject([titles |->
              [t |-> "array",
               items |-> <<JString(tElantrisQ), [t |-> "number", n |-> 42],
                           [t |-> "null"]>>]])),
          JsonFile(SnapshotPayload(Timestamp(0), <<rNbsp, tElantrisMd>>))}

(* ------------------------------ state ---------------------------------- *)

VARIABLES
    fs,               \* the file system: path -> file
    fs0,              \* the file system when the run started
    pc,               \* the statement of main the run is at
    args,             \* the parsed command line
    now,              \* the clock reading of the run
    html_text,        \* what fetch_html returned
    titles,           \* extract_titles(html_text)
    previous_titles,  \* load_titles(args.previous), or []
    changes,          \* (added, removed) of diff_titles
    exit,             \* how the run ended
    io,               \* the reads and writes of files, in order
    input,            \* the arguments of a function applied on its own
    call              \* that function's result

vars == <<fs, fs0, pc, args, now, html_text, titles, previous_titles, changes,
          exit, io, input, call>>

mainVars == <<fs, fs0, pc, args, now, html_text, titles, previous_titles,
              changes, exit, io>>

\* An option that was not given (None, or the empty string: both are falsy).
NotGiven == <<>>

NoArgs ==
    [output |-> NotGiven, output_dir |-> NotGiven, latest |-> NotGiven,
     previous |-> NotGiven, diff |-> NotGiven, issue_body |-> NotGiven,
     issue_title |-> NotGiven]

\* build_arg_parser: exactly one of --output and --output-dir, the rest
\* optional.
ArgSets ==
    {a \in [output : {NotGiven, pathP}, output_dir : {NotGiven, pathDir},
            latest : {NotGiven, pathQ}, previous : {NotGiven, pathP, pathQ},
            diff : {NotGiven, pathDiff}, issue_body : {NotGiven, pathBody},
            issue_title : {NotGiven, pathTitle}] :
        (a.output = NotGiven) # (a.output_dir = NotGiven)}

NoCall == [fn |-> "none", pass |-> 0, arg |-> <<>>, result |-> <<>>]

MainIdle ==
    /\ pc = "start"
    /\ args = NoArgs
    /\ now = 0
    /\ html_text = <<>>
    /\ titles = <<>>
    /\ previous_titles = <<>>
    /\ changes = [added |-> <<>>, removed |-> <<>>]
    /\ exit = "running"
    /\ io = <<>>
    /\ fs0 = fs

Init ==
    /\ fs \in {f \in [Paths -> OldFiles] :
                 \A path \in Paths \ {pathP, pathQ} : f[path] = AbsentFile}
    /\ MainIdle
    /\ input = [fn |-> "main"]
    /\ call = NoCall

(* ------------------------------ main ----------------------------------- *)

\* Variant: the previous snapshot loaded before the snapshot is written.
ProgramOrderLoadFirst ==
    <<"start", "fetch", "extract", "load_previous", "write_output",
      "write_latest", "diff", "write_diff", "write_body", "write_title", "done">>

\* The statements of main in the order it runs them.
ProgramOrder ==
    <<"start", "fetch", "extract", "write_output", "write_latest",
      "load_previous", "diff", "write_diff", "write_body", "write_title", "done">>

After(step) ==
    ProgramOrder[(CHOOSE i \in 1..Len(ProgramOrder) : ProgramOrder[i] = step) + 1]

\* output_path of main.
OutputPath(a, clock) ==
    IF a.output_dir # NotGiven THEN OutputDirPath(a.output_dir, clock) ELSE a.output

\* Variant: without the refusal of an empty snapshot.
RefusesNever(current) == FALSE

\* "if not titles": main refuses to write an empty snapshot.
Refuses(current) == current = <<>>

\* args = build_arg_parser().parse_args(); now = datetime.now(timezone.utc)
Start ==
    /\ pc = "start"
    /\ input.fn = "main"
    /\ \E a \in ArgSets, c \in Clock : args' = a /\ now' = c
    /\ pc' = After("start")
    /\ UNCHANGED <<fs, fs0, html_text, titles, previous_titles, changes, exit,
                   io, input, call>>

\* html_text = fetch_html(SOURCE_URL)
Fetch ==
    /\ pc = "fetch"
    /\ html_text' \in Pages
    /\ pc' = After("fetch")
    /\ UNCHANGED <<fs, fs0, args, now, titles, previous_titles, changes, exit,
                   io, input, call>>

\* fetch_html raises (timeout, connection failure): the run ends uncaught.
FetchFails ==
    /\ pc = "fetch"
    /\ pc' = "failed"
    /\ exit' = "NetworkError"
    /\ UNCHANGED <<fs, fs0, args, now, html_text, titles, previous_titles,
                   changes, io, input, call>>

\* titles = extract_titles(html_text); return 2 when there are none.
Extract ==
    /\ pc = "extract"
    /\ titles' = extract_titles(html_text)
    /\ IF Refuses(titles')
       THEN pc' = "done" /\ exit' = "2"
       ELSE pc' = After("extract") /\ exit' = exit
    /\ UNCHANGED <<fs, fs0, args, now, html_text, previous_titles, changes,
                   io, input, call>>

\* write_json(output_path, payload)
WriteOutput ==
    /\ pc = "write_output"
    /\ fs' = write_json(fs, OutputPath(args, now),
                        SnapshotPayload(Timestamp(now), titles))
    /\ io' = Append(io, [op |-> "write", path |-> OutputPath(args, now)])
    /\ pc' = After("write_output")
    /\ UNCHANGED <<fs0, args, now, html_text, titles, previous_titles, changes,
                   exit, input, call>>

\* if args.latest: write_json(args.latest, payload)
WriteLatest ==
    /\ pc = "write_latest"
    /\ IF args.latest # NotGiven
       THEN /\ fs' = write_json(fs, args.latest,
                                SnapshotPayload(Timestamp(now), titles))
            /\ io' = Append(io, [op |-> "write", path |-> args.latest])
       ELSE UNCHANGED <<fs, io>>
    /\ pc' = After("write_latest")
    /\ UNCHANGED <<fs0, args, now, html_text, titles, previous_titles, changes,
                   exit, input, call>>

\* if args.previous: previous_titles = load_titles(args.previous)
LoadPrevious ==
    /\ pc = "load_previous"
    /\ IF args.previous # NotGiven
       THEN LET loaded == load_titles(fs, args.previous)
            IN  /\ io' = Append(io, [op |-> "read", path |-> args.previous])
                /\ IF loaded.ok
                   THEN /\ previous_titles' = loaded.titles
                        /\ pc' = After("load_previous")
                        /\ exit' = exit
                   ELSE /\ previous_titles' = previous_titles
                        /\ pc' = "failed"
                        /\ exit' = loaded.error
       ELSE /\ pc' = After("load_previous")
            /\ UNCHANGED <<previous_titles, exit, io>>
    /\ UNCHANGED <<fs, fs0, args, now, html_text, titles, changes, input, call>>

Reports(a) ==
    a.diff # NotGiven \/ a.issue_body # NotGiven \/ a.issue_title # NotGiven

\* if args.diff or args.issue_body or args.issue_title:
\*     added, removed = diff_titles(previous_titles, titles)
Diff ==
    /\ pc = "diff"
    /\ IF Reports(args)
       THEN /\ changes' = diff_titles(previous_titles, titles)
            /\ pc' = After("diff")
            /\ exit' = exit
       ELSE /\ changes' = changes
            /\ pc' = "done"
            /\ exit' = "0"
    /\ UNCHANGED <<fs, fs0, args, now, html_text, titles, previous_titles, io,
                   input, call>>

\* if args.diff: write_json(args.diff, diff_payload)
WriteDiff ==
    /\ pc = "write_diff"
    /\ IF args.diff # NotGiven
       THEN /\ fs' = write_json(fs, args.diff,
                                DiffPayload(Timestamp(now), changes.added,
                                            changes.removed, titles,
                                            previous_titles))
            /\ io' = Append(io, [op |-> "write", path |-> args.diff])
       ELSE UNCHANGED <<fs, io>>
    /\ pc' = After("write_diff")
    /\ UNCHANGED <<fs0, args, now, html_text, titles, previous_titles, changes,
                   exit, input, call>>

\* if args.issue_body: Path(args.issue_body).write_text(body)
WriteBody ==
    /\ pc = "write_body"
    /\ IF args.issue_body # NotGiven
       THEN /\ fs' = write_text(fs, args.issue_body,
                                format_issue_body(titles, changes.added,
                                                  changes.removed))
            /\ io' = Append(io, [op |-> "write", path |-> args.issue_body])
       ELSE UNCHANGED <<fs, io>>
    /\ pc' = After("write_body")
    /\ UNCHANGED <<fs0, args, now, html_text, titles, previous_titles, changes,
                   exit, input, call>>

\* if args.issue_title: Path(args.issue_title).write_text(title + "\n");
\* return 0
WriteTitle ==
    /\ pc = "write_title"
    /\ IF args.issue_title # NotGiven
       THEN /\ fs' = write_text(fs, args.issue_title,
                                format_issue_title(changes.added, changes.removed)
                                \o <<10>>)
            /\ io' = Append(io, [op |-> "write", path |-> args.issue_title])
       ELSE UNCHANGED <<fs, io>>
    /\ pc' = After("write_title")
    /\ exit' = "0"
    /\ UNCHANGED <<fs0, args, now, html_text, titles, previous_titles, changes,
                   input, call>>

\* The path the write at a statement goes to (NotGiven: it writes nothing).
WriteTarget(step) ==
    CASE step = "write_output" -> OutputPath(args, now)
      [] step = "write_latest" -> args.latest
      [] step = "write_diff" -> args.diff
      [] step = "write_body" -> args.issue_body
      [] step = "write_title" -> args.issue_title
      [] OTHER -> NotGiven

\* A write raises OSError at mkdir or open (no permission, the path is a
\* directory): the file is as it was and the run ends uncaught.
WriteFails ==
    /\ WriteTarget(pc) # NotGiven
    /\ pc' = "failed"
    /\ exit' = "OSError"
    /\ UNCHANGED <<fs, fs0, args, now, html_text, titles, previous_titles,
                   changes, io, input, call>>

Next ==
    \/ Start
    \/ Fetch
    \/ FetchFails
    \/ Extract
    \/ WriteOutput
    \/ WriteLatest
    \/ LoadPrevious
    \/ Diff
    \/ WriteDiff
    \/ WriteBody
    \/ WriteTitle
    \/ WriteFails

Spec == Init /\ [][Next]_vars

(* ------------------------------ the functions on their own ------------- *)

TitleLists == SeqsUpTo(TitlePool, MaxTitles)

BodyLists == SeqsUpTo(BodyPool, MaxTitles)

\* The function applied and the arguments it is applied to.
InputDrawn ==
    \/ \E r \in SeqsUpTo(CandPool, MaxCands) :
          input = [fn |-> "normalize_filter", raw |-> r]
    \/ \E h \in SeqsUpTo(TagPool, MaxTags) :
          input = [fn |-> "extract_titles", html_text |-> h]
    \/ \E a \in TitleLists, b \in TitleLists :
          input = [fn |-> "diff_titles", previous |-> a, current |-> b]
    \/ \E t \in SeqsUpTo(EscAlphabet, MaxEscLen) :
          input = [fn |-> "escape_markdown", text |-> t]
    \/ \E c \in BodyLists, a \in BodyLists, r \in SeqsUpTo(RemovedPool, MaxTitles) :
          input = [fn |-> "format_issue_body", current |-> c, added |-> a,
                   removed |-> r]
    \/ \E a \in TitleLists, r \in TitleLists :
          input = [fn |-> "format_issue_title", added |-> a, removed |-> r]
    \/ \E f \in LoadFiles :
          input = [fn |-> "load_titles", path |-> pathQ, file |-> f]

InitFn ==
    /\ InputDrawn
    /\ fs = [path \in Paths |->
                IF input.fn = "load_titles" /\ path = input.path
                THEN input.file ELSE AbsentFile]
    /\ MainIdle
    /\ call = NoCall

Returns(fn, arg, result, pass) ==
    /\ call' = [fn |-> fn, pass |-> pass, arg |-> arg, result |-> result]
    /\ UNCHANGED <<mainVars, input>>

\* The Normalizer/Filter on a sequence of candidates.
CallNormalizeFilter ==
    /\ call = NoCall /\ input.fn = "normalize_filter"
    /\ Returns("normalize_filter", input.raw, NormalizeFilter(input.raw), 1)

\* The Normalizer/Filter on the list it returned.
FeedBack ==
    /\ call.fn = "normalize_filter" /\ call.pass = 1
    /\ Returns("normalize_filter", call.result, NormalizeFilter(call.result), 2)

CallExtractTitles ==
    /\ call = NoCall /\ input.fn = "extract_titles"
    /\ Returns("extract_titles", input.html_text, extract_titles(input.html_text), 1)

CallDiffTitles ==
    /\ call = NoCall /\ input.fn = "diff_titles"
    /\ Returns("diff_titles", <<>>, diff_titles(input.previous, input.current), 1)

CallEscapeMarkdown ==
    /\ call = NoCall /\ input.fn = "escape_markdown"
    /\ Returns("escape_markdown", input.text, escape_markdown(input.text), 1)

CallFormatIssueBody ==
    /\ call = NoCall /\ input.fn = "format_issue_body"
    /\ Returns("format_issue_body", <<>>,
               format_issue_body(input.current, input.added, input.removed), 1)

CallFormatIssueTitle ==
    /\ call = NoCall /\ input.fn = "format_issue_title"
    /\ Returns("format_issue_title", <<>>,
               format_issue_title(input.added, input.removed), 1)

CallLoadTitles ==
    /\ call = NoCall /\ input.fn = "load_titles"
    /\ Returns("load_titles", <<>>, load_titles(fs, input.path), 1)

NextFn ==
    \/ CallNormalizeFilter
    \/ FeedBack
    \/ CallExtractTitles
    \/ CallDiffTitles
    \/ CallEscapeMarkdown
    \/ CallFormatIssueBody
    \/ CallFormatIssueTitle
    \/ CallLoadTitles

SpecFn == InitFn /\ [][NextFn]_vars

(* ------------------------------ claims --------------------------------- *)

Sorted(list) ==
    \A i, j \in 1..Len(list) :
        i < j => ~StrLess(casefold(list[j]), casefold(list[i]))

Count(list, x) == Cardinality({i \in 1..Len(list) : list[i] = x})

Elems(list) == {list[i] : i \in 1..Len(list)}

\* extract_titles has returned in this run.
Extracted == pc \notin {"start", "fetch", "extract"} /\ exit # "NetworkError"

\* C1: when extract_titles returns no title, main returns 2 and has written
\* or changed no file: every path holds what it held when the run started.
C1_EmptyRefused ==
    (Extracted /\ titles = <<>>) =>
        /\ pc = "done"
        /\ exit = "2"
        /\ fs = fs0
        /\ io = <<>>

\* C1 witness: a run over a page with anchors but no matching title, with a
\* --latest path holding a file and report paths given, has returned 2.
C1_Witness ==
    /\ pc = "done" /\ exit = "2"
    /\ html_text # <<>>
    /\ args.latest = pathQ /\ fs0[pathQ].kind = "json"
    /\ args.diff # NotGiven /\ args.issue_body # NotGiven
    /\ args.issue_title # NotGiven

\* C2: the list extract_titles returns for the parser's candidates holds only non-empty titles
\* containing the keyword as a whole word, no two with the same case-folded
\* form, in non-decreasing order of case-folded form, each the normalized
\* form of the first candidate that has its case-folded key.
C2_ExtractInvariant ==
    call.fn \in {"normalize_filter", "extract_titles"} =>
        LET raw == IF call.fn = "extract_titles" THEN ParserFeed(call.arg)
                   ELSE call.arg
        IN  /\ \A i \in 1..Len(call.result) :
                  /\ call.result[i] # <<>>
                  /\ SIGNED_RE_search(call.result[i])
                  /\ \E k \in 1..Len(raw) :
                        /\ normalize_title(raw[k]) = call.result[i]
                        /\ \A m \in 1..(k - 1) :
                              casefold(normalize_title(raw[m]))
                                  # casefold(call.result[i])
            /\ \A i, j \in 1..Len(call.result) :
                  i # j => casefold(call.result[i]) # casefold(call.result[j])
            /\ Sorted(call.result)

\* C2 witness: two candidates, out of order, and a third case-insensitive
\* duplicate of one of them have been filtered.
C2_Witness ==
    /\ call.fn = "normalize_filter"
    /\ Len(call.arg) >= 2
    /\ normalize_title(call.arg[1]) # normalize_title(call.arg[2])
    /\ \/ /\ casefold(normalize_title(call.arg[1]))
                = casefold(normalize_title(call.arg[2]))
          /\ call.result = <<normalize_title(call.arg[1])>>
       \/ /\ Len(call.result) = 2
          /\ call.result[1] = normalize_title(call.arg[2])

\* C3: added is exactly the elements of current whose case-folded form is
\* that of no element of previous, removed exactly the elements of previous
\* whose case-folded form is that of no element of current, each in its own
\* casing, both in non-decreasing order of case-folded form.
C3_DiffExact ==
    call.fn = "diff_titles" =>
        /\ \A x \in Elems(input.current) \cup Elems(call.result.added) :
              Count(call.result.added, x) =
                  IF \E y \in Elems(input.previous) : casefold(y) = casefold(x)
                  THEN 0 ELSE Count(input.current, x)
        /\ \A x \in Elems(input.previous) \cup Elems(call.result.removed) :
              Count(call.result.removed, x) =
                  IF \E y \in Elems(input.current) : casefold(y) = casefold(x)
                  THEN 0 ELSE Count(input.previous, x)
        /\ Sorted(call.result.added)
        /\ Sorted(call.result.removed)
        /\ (input.previous = <<>> /\ input.current = <<>>) =>
              (call.result.added = <<>> /\ call.result.removed = <<>>)

\* C3 witness: a diff with one title kept under another casing, one added and
\* one removed.
C3_Witness ==
    /\ call.fn = "diff_titles"
    /\ Len(input.previous) = 2 /\ Len(input.current) = 2
    /\ Len(call.result.added) = 1 /\ Len(call.result.removed) = 1
    /\ \E i, j \in 1..2 :
          /\ input.previous[i] # input.current[j]
          /\ casefold(input.previous[i]) = casefold(input.current[j])

\* C4 (as claimed): format_issue_title returns "" exactly when both lists are
\* empty, the fixed label exactly when there is more than one change, and a
\* label naming the title when there is exactly one change.
C4_TitleAsClaimed ==
    call.fn = "format_issue_title" =>
        LET total == Len(input.added) + Len(input.removed)
        IN  /\ (call.result = <<>>) <=> (total = 0)
            /\ (call.result = MultipleLabel) <=> (total > 1)
            /\ (Len(input.added) = 1 /\ input.removed = <<>>) =>
                  call.result = NewPrefix \o input.added[1]
            /\ (Len(input.removed) = 1 /\ input.added = <<>>) =>
                  call.result = RemovedPrefix \o input.removed[1]

\* C4 (amended): as claimed, but the fixed label is returned exactly when
\* there is more than one change or the only change is the added title
\* "multiple".
C4_TitleAmended ==
    call.fn = "format_issue_title" =>
        LET total == Len(input.added) + Len(input.removed)
        IN  /\ (call.result = <<>>) <=> (total = 0)
            /\ (call.result = MultipleLabel) <=>
                  (total > 1 \/ (input.added = <<tMultiple>> /\ input.removed = <<>>))
            /\ (Len(input.added) = 1 /\ input.removed = <<>>) =>
                  call.result = NewPrefix \o input.added[1]
            /\ (Len(input.removed) = 1 /\ input.added = <<>>) =>
                  call.result = RemovedPrefix \o input.removed[1]

\* C4 witness: one added together with one removed got the fixed label.
C4_Witness ==
    /\ call.fn = "format_issue_title"
    /\ Len(input.added) = 1 /\ Len(input.removed) = 1
    /\ call.result = MultipleLabel

\* C5 (as claimed): load_titles fails only on a file that is no valid JSON;
\* on a missing file, and on valid JSON with no "titles" list whatever its
\* top-level value, it returns the empty list.
C5_LoadFailsOnlyOnInvalidJson ==
    call.fn = "load_titles" =>
        /\ input.file.kind \in {"absent", "json"} => call.result.ok
        /\ (input.file.kind = "absent"
            \/ (input.file.kind = "json"
                /\ ~(/\ input.file.doc.t = "object"
                     /\ "titles" \in DOMAIN input.file.doc.fields
                     /\ input.file.doc.fields.titles.t = "array")))
           => (call.result.ok /\ call.result.titles = <<>>)

\* C6 (as claimed): a run that ended in a failure has left every file as it
\* was before the run.
C6_AllOrNothing == pc = "failed" => fs = fs0

\* C7 (as claimed): the Normalizer/Filter applied to the list it returned
\* returns that same list.
C7_Idempotent ==
    (call.fn = "normalize_filter" /\ call.pass = 2) => call.result = call.arg

\* The positions of the line breaks of a text, and its two ends.
Breaks(text) == {0, Len(text) + 1} \cup {i \in 1..Len(text) : text[i] = 10}

KthBreak(text, k) ==
    CHOOSE b \in Breaks(text) : Cardinality({c \in Breaks(text) : c < b}) = k - 1

\* text.split("\n")
SplitLines(text) ==
    [k \in 1..(Cardinality(Breaks(text)) - 1) |->
        SubSeq(text, KthBreak(text, k) + 1, KthBreak(text, k + 1) - 1)]

RECURSIVE NonBlank(_)
NonBlank(lines) ==
    IF lines = <<>> THEN <<>>
    ELSE IF Head(lines) = <<>> THEN NonBlank(Tail(lines))
    ELSE <<Head(lines)>> \o NonBlank(Tail(lines))

C8_Bullet(title, bold) ==
    IF bold THEN <<45, 32, 42, 42>> \o escape_markdown(title) \o <<42, 42>>
    ELSE <<45, 32>> \o escape_markdown(title)

\* The sections the claim lists, line by line.
C8_Sections(current, added, removed) ==
    (IF added = <<>> THEN <<>>
     ELSE <<AddedHeader>> \o [i \in 1..Len(added) |-> C8_Bullet(added[i], TRUE)])
    \o (IF removed = <<>> THEN <<>>
        ELSE <<RemovedHeader>>
             \o [i \in 1..Len(removed) |-> C8_Bullet(removed[i], FALSE)])
    \o <<CurrentHeader>>
    \o [i \in 1..Len(current) |->
           C8_Bullet(current[i],
                     \E k \in 1..Len(added) :
                         casefold(added[k]) = casefold(current[i]))]

\* C8: the body is, in order, the "Added:" section (bold bullets) exactly when
\* added is non-empty, the "Removed:" section (plain bullets) exactly when
\* removed is non-empty, and the "Current signed titles:" section with one
\* bullet per current title, bold exactly when its case-folded form is that
\* of an added title; it ends with one newline and no blank line before it.
C8_BodySections ==
    call.fn = "format_issue_body" =>
        LET body == call.result
            n == Len(body)
        IN  /\ n >= 2 /\ body[n] = 10 /\ body[n - 1] # 10
            /\ NonBlank(SplitLines(SubSeq(body, 1, n - 1)))
                   = C8_Sections(input.current, input.added, input.removed)

\* C8 witness: a body with all three sections, one current title bold under
\* another casing than the added one and one current title plain.
C8_Witness ==
    /\ call.fn = "format_issue_body"
    /\ input.added = <<tELANTRIS>>
    /\ input.removed # <<>>
    /\ input.current = <<tElantris, tElantrisMd>>

RECURSIVE C9_SinglePass(_)
\* Each of the six characters replaced by a backslash and itself, in one pass.
C9_SinglePass(text) ==
    IF text = <<>> THEN <<>>
    ELSE (IF Head(text) \in {92, 42, 95, 96, 91, 93}
          THEN <<92, Head(text)>> ELSE <<Head(text)>>)
         \o C9_SinglePass(Tail(text))

RECURSIVE C9_Recover(_)
\* The text with each backslash that precedes a character removed.
C9_Recover(text) ==
    IF text = <<>> THEN <<>>
    ELSE IF Head(text) = 92 /\ Len(text) >= 2
         THEN <<text[2]>> \o C9_Recover(SubSeq(text, 3, Len(text)))
    ELSE <<Head(text)>> \o C9_Recover(Tail(text))

\* C9: escape_markdown returns the text with each of \ * _ ` [ ] replaced,
\* character by character, by a backslash and that character; no inserted
\* backslash is doubled and the original text is recovered by removing the
\* inserted backslashes.
C9_EscapeCharByChar ==
    call.fn = "escape_markdown" =>
        /\ call.result = C9_SinglePass(input.text)
        /\ C9_Recover(call.result) = input.text

\* C9 witness: a text holding a backslash before a star has been escaped.
C9_Witness ==
    /\ call.fn = "escape_markdown"
    /\ input.text = <<97, 92, 42>>
    /\ call.result = <<97, 92, 92, 92, 42>>

WriteBefore(path, i) ==
    \E j \in 1..(i - 1) : io[j] = [op |-> "write", path |-> path]

\* C10: the previous snapshot is read only after the snapshot was written to
\* the output path and, when given, to --latest; so when --previous is the
\* --output or the --latest file, added and removed are empty and the issue
\* title written is empty, whatever the file held before the run.
C10_ReadAfterWrite ==
    /\ \A i \in 1..Len(io) :
          io[i].op = "read" =>
              /\ WriteBefore(OutputPath(args, now), i)
              /\ args.latest # NotGiven => WriteBefore(args.latest, i)
    /\ (/\ pc \in {"write_diff", "write_body", "write_title", "done"}
        /\ exit # "2"
        /\ Reports(args)
        /\ args.previous # NotGiven
        /\ args.previous \in {args.output, args.latest})
       => /\ changes.added = <<>>
          /\ changes.removed = <<>>
          /\ (pc = "done" /\ args.issue_title # NotGiven) =>
                fs[args.issue_title] = TextFile(<<10>>)

\* C10 witness: a finished run whose --previous is its --output, a file that
\* held other titles before the run.
C10_Witness ==
    /\ pc = "done" /\ exit = "0"
    /\ args.previous = pathP /\ args.output = pathP
    /\ args.issue_title # NotGiven
    /\ fs0[pathP] = JsonFile(SnapshotPayload(Timestamp(0), <<tELANTRIS, tOldElantris>>))
    /\ Len(titles) = 3
    /\ previous_titles = titles

====
